---- MODULE Spec2Model ----
(***************************************************************************)
(* Ownership and teardown of an XmlDocument over the libxml2 tree          *)
(* (package xml), its fragment builder and the XPath engine bound to it    *)
(* (package xpath).  The native side is an instrumented engine: every      *)
(* xmlNode, the xmlDoc, the xmlXPathContext and every xmlXPathObject       *)
(* carries the number of times it has been handed to a native free.        *)
(***************************************************************************)
EXTENDS Integers, Sequences, FiniteSets, TLC

\* ---------------------------------------------------------------- bounds
MaxNodes == 2        \* xmlNodes allocated and not freed at one time
MaxContent == 2      \* top-level items of one content buffer
MaxFragments == 2    \* DocumentFragment objects of one run
MaxResults == 2      \* xmlXPathObject allocations of one run
MaxFreeCalls == 2    \* calls of XmlDocument.Free of one run
MaxCalls == 2        \* calls of StartProfiling with one name
MaxTime == 2         \* the latest reading of the clock

\* ------------------------------------------------------------- constants
Nil == 0 - 1         \* the nil pointer
DocNode == 0         \* the xmlDoc, seen as an xmlNode (document.Ptr)
\* every fragment parse allocates one more node, its transient <root>
Nodes == 1..(MaxNodes + MaxFragments)
Items == {"item"}     \* a top-level node of a content buffer

NoErr == "nil"
ERR_FAILED_TO_PARSE_XML == "failed to parse xml input"
ErrFailParseFragment == "failed to parse xml fragment"
fragmentWrapperStart == <<"<root>">>
fragmentWrapperEnd == <<"</root>">>

\* content buffers: the sequence of top-level items the bytes spell
Contents == UNION {[1..k -> Items] : k \in 0..MaxContent}
\* what the external document parser can answer for a non-empty buffer
TreeShapes == {"null", "rootless", "root", "root+child"}
\* what the external XPath evaluator can answer
EvalOutcomes == {"null", "noset", "set"}
\* the function names handed to StartProfiling
Names == {"Parse", "Search"}

VARIABLES
    pc,        \* "start" | "failed" | "live" | "freed" | "panic"
    heap,      \* the native engine: nodes, links, free counters, parser calls
    docs,      \* the XmlDocument objects (Go heap); a *XmlDocument is an index
    frags,     \* the DocumentFragment objects (Go heap); a pointer is an index
    freeLog,   \* the latest XmlDocument.Free: its native events in order, and
               \* the nodes its range over UnlinkedNodes freed
    freeCalls, \* calls of XmlDocument.Free so far
    ret        \* what the latest call returned

vars == <<pc, heap, docs, frags, freeLog, freeCalls, ret>>

\* ------------------------------------------------------------- sequences
Range(s) == {s[i] : i \in DOMAIN s}
RemoveElem(s, x) == SelectSeq(s, LAMBDA y : y # x)
IndexOf(s, x) == CHOOSE i \in DOMAIN s : s[i] = x
\* the elements of a finite set of numbers, ascending
Ascending(S) ==
    [i \in 1..Cardinality(S) |-> CHOOSE x \in S : Cardinality({y \in S : y < x}) = i - 1]
\* the orders in which a range over a Go map with the keys S visits them: the
\* runtime picks the key it starts at and wraps around
Orders(S) ==
    LET k == Cardinality(S) IN
    IF k = 0 THEN {<<>>}
    ELSE {[i \in 1..k |-> Ascending(S)[((i - 1 + r) % k) + 1]] : r \in 0..(k - 1)}

\* ------------------------------------------------ native tree primitives
EmptyHeap ==
    [allocated |-> 0,
     docAllocated |-> FALSE,
     kids |-> [p \in {DocNode} \cup Nodes |-> <<>>],
     freeCount |-> [p \in {DocNode} \cup Nodes |-> 0],
     ctxAllocated |-> 0,
     ctxFreeCount |-> 0,
     ctxNode |-> Nil,
     resAllocated |-> 0,
     resFreeCount |-> [r \in 1..MaxResults |-> 0],
     resNodeTab |-> [r \in 1..MaxResults |-> <<>>],
     built |-> <<>>,
     roots |-> {}]

ParentOf(h, n) ==
    IF \E p \in DOMAIN h.kids : n \in Range(h.kids[p])
    THEN CHOOSE p \in DOMAIN h.kids : n \in Range(h.kids[p])
    ELSE Nil

FirstChild(h, p) == IF h.kids[p] = <<>> THEN Nil ELSE Head(h.kids[p])

NextSibling(h, n) ==
    LET p == ParentOf(h, n) IN
    IF p = Nil THEN Nil
    ELSE LET i == IndexOf(h.kids[p], n) IN
         IF i < Len(h.kids[p]) THEN h.kids[p][i + 1] ELSE Nil

RECURSIVE Subtree(_, _)
Subtree(h, n) == {n} \cup UNION {Subtree(h, c) : c \in Range(h.kids[n])}

Alive(h, n) == n \in 1..h.allocated /\ h.freeCount[n] = 0

LiveNodes(h) == {n \in Nodes : Alive(h, n)}

\* xmlNewNode / xmlNewText / xmlNewCDataBlock: a fresh node with no parent
xmlNewNode(h) == [h EXCEPT !.allocated = @ + 1]

\* xmlUnlinkNode: out of the parent's child list; parent and siblings cleared
xmlUnlinkNode(h, n) ==
    LET p == ParentOf(h, n) IN
    IF p = Nil THEN h ELSE [h EXCEPT !.kids[p] = RemoveElem(@, n)]

\* xmlAddChild: n becomes the last child of p
xmlAddChild(h, p, n) == [h EXCEPT !.kids[p] = Append(@, n)]

\* xmlFreeNode: frees n and, recursively, its children; n is NOT unlinked
\* from its parent, whose child list keeps the stale pointer
xmlFreeNode(h, n) ==
    [h EXCEPT !.freeCount =
        [x \in DOMAIN @ |-> IF x \in Subtree(h, n) THEN @[x] + 1 ELSE @[x]]]

\* xmlFreeDoc: frees the xmlDoc and every node reachable from it
xmlFreeDoc(h) == xmlFreeNode(h, DocNode)

\* xmlDocGetRootElement: the document's element child (the parser gives the
\* document no other child)
xmlDocGetRootElement(h) == FirstChild(h, DocNode)

\* ------------------------------------------------------- external parser
\* xmlParse (helper.h): no tree for "null", else a fresh xmlDoc holding what
\* the parser recovered from the buffer
xmlParse(h, content, shape) ==
    IF shape = "null" THEN [heap |-> h, ptr |-> Nil, calls |-> 1]
    ELSE LET h1 == [h EXCEPT !.docAllocated = TRUE]
             h2 == IF shape = "rootless" THEN h1
                   ELSE xmlAddChild(xmlNewNode(h1), DocNode, h1.allocated + 1)
             h3 == IF shape = "root+child"
                   THEN xmlAddChild(xmlNewNode(h2), h1.allocated + 1, h2.allocated + 1)
                   ELSE h2
         IN [heap |-> h3, ptr |-> DocNode, calls |-> 1]

\* newEmptyXmlDoc (helper.h): an xmlDoc with no children; no parser involved
newEmptyXmlDoc(h) == [heap |-> [h EXCEPT !.docAllocated = TRUE], ptr |-> DocNode]

\* ------------------------------------------------------------ the world
\* what one call reads and writes: the native heap, the Go objects, the log
World == [heap |-> heap, docs |-> docs, frags |-> frags, log |-> freeLog]

Commit(w) ==
    /\ heap' = w.heap
    /\ docs' = w.docs
    /\ frags' = w.frags
    /\ freeLog' = w.log

\* a call's name, whether its content argument was non-empty (1) or empty
\* (0), its results, and the number of calls it made into the external parser
Ret(op, in, val, err, parsed) ==
    [op |-> op, in |-> in, val |-> val, err |-> err, parsed |-> parsed]
\* a call that returns nothing
NoRet == Ret("none", 0, Nil, NoErr, 0)

\* ------------------------------------------------- package xpath: NewXPath
NewXPath(h, docPtr) ==
    IF docPtr = Nil
    THEN [heap |-> h, xpath |-> [valid |-> FALSE, ContextPtr |-> Nil, ResultPtr |-> Nil]]
    ELSE [heap |-> [h EXCEPT !.ctxAllocated = @ + 1],
          xpath |-> [valid |-> TRUE, ContextPtr |-> h.ctxAllocated + 1, ResultPtr |-> Nil]]

\* ------------------------------------------------- package xml: documents
NewDocument(w, p, contentLen) ==
    LET x == NewXPath(w.heap, p) IN
    [w EXCEPT !.heap = x.heap,
              !.docs = Append(@, [Ptr |-> p,
                                  UnlinkedNodes |-> {},
                                  XPathCtx |-> x.xpath,
                                  fragments |-> <<>>,
                                  ProfilingData |-> <<>>,
                                  NowProfiling |-> "",
                                  StartTime |-> 0])]

CreateEmptyDocument(w) ==
    LET e == newEmptyXmlDoc(w.heap) IN
    NewDocument([w EXCEPT !.heap = e.heap], e.ptr, 0)

\* Parse without its empty-content branch: the parser is always asked
ParseDocNoShortCircuit(w, content, shape) ==
    LET r == xmlParse(w.heap, content, shape)
        w1 == [w EXCEPT !.heap = r.heap] IN
    IF r.ptr = Nil
    THEN [w |-> w1, doc |-> Nil, err |-> ERR_FAILED_TO_PARSE_XML, parsed |-> r.calls]
    ELSE LET w2 == NewDocument(w1, r.ptr, Len(content)) IN
         [w |-> w2, doc |-> Len(w2.docs), err |-> NoErr, parsed |-> r.calls]

\* Parse without the else of line 155: a document is built around a nil tree
ParseDocKeepsNilTree(w, content, shape) ==
    IF Len(content) > 0
    THEN LET r == xmlParse(w.heap, content, shape)
             w1 == [w EXCEPT !.heap = r.heap]
             w2 == NewDocument(w1, r.ptr, Len(content)) IN
         [w |-> w2, doc |-> Len(w2.docs),
          err |-> IF r.ptr = Nil THEN ERR_FAILED_TO_PARSE_XML ELSE NoErr,
          parsed |-> r.calls]
    ELSE LET w2 == CreateEmptyDocument(w) IN
         [w |-> w2, doc |-> Len(w2.docs), err |-> NoErr, parsed |-> 0]

\* Parse: [w, doc, err, parsed]; doc is the index of the new XmlDocument or Nil
ParseDoc(w, content, shape) ==
    IF Len(content) > 0
    THEN LET r == xmlParse(w.heap, content, shape)
             w1 == [w EXCEPT !.heap = r.heap] IN
         IF r.ptr = Nil
         THEN [w |-> w1, doc |-> Nil, err |-> ERR_FAILED_TO_PARSE_XML, parsed |-> r.calls]
         ELSE LET w2 == NewDocument(w1, r.ptr, Len(content)) IN
              [w |-> w2, doc |-> Len(w2.docs), err |-> NoErr, parsed |-> r.calls]
    ELSE LET w2 == CreateEmptyDocument(w) IN
         [w |-> w2, doc |-> Len(w2.docs), err |-> NoErr, parsed |-> 0]

Parse(content, shape) ==
    /\ pc = "start"
    /\ LET r == ParseDoc(World, content, shape) IN
       /\ Commit(r.w)
       /\ ret' = Ret("Parse", IF Len(content) > 0 THEN 1 ELSE 0, r.doc, r.err, r.parsed)
       /\ pc' = IF r.doc = Nil THEN "failed" ELSE "live"
    /\ UNCHANGED freeCalls

\* Root answering with the first node the document was given
RootFirstNode(w, d) == IF w.heap.allocated >= 1 THEN 1 ELSE Nil

\* XmlDocument.Root: looked up in the native tree at every call
Root(w, d) == xmlDocGetRootElement(w.heap)

AddUnlinkedNode(w, d, nodePtr) ==
    [w EXCEPT !.docs[d].UnlinkedNodes = @ \cup {nodePtr}]

\* BookkeepFragment putting the fragment at the front of the list
BookkeepFragmentFront(w, d, fragment) ==
    [w EXCEPT !.docs[d].fragments = <<fragment>> \o @]

BookkeepFragment(w, d, fragment) ==
    [w EXCEPT !.docs[d].fragments = Append(@, fragment)]

\* CreateElementNode: xmlNewNode(nil, tag), wrapped by NewNode
CreateElementNode(w, d) ==
    [w |-> [w EXCEPT !.heap = xmlNewNode(@)], node |-> w.heap.allocated + 1]

\* CreateTextNode / CreateCDataNode: nil when the native allocation fails
CreateTextNode(w, d, ok) ==
    IF ok
    THEN [w |-> [w EXCEPT !.heap = xmlNewNode(@)], node |-> w.heap.allocated + 1]
    ELSE [w |-> w, node |-> Nil]

CreateCDataNode(w, d, ok) ==
    IF ok
    THEN [w |-> [w EXCEPT !.heap = xmlNewNode(@)], node |-> w.heap.allocated + 1]
    ELSE [w |-> w, node |-> Nil]

Live == pc = "live" /\ Len(docs) = 1

XmlDocument_CreateElementNode ==
    /\ Live
    /\ Cardinality(LiveNodes(heap)) < MaxNodes
    /\ LET r == CreateElementNode(World, 1) IN
       /\ Commit(r.w)
       /\ ret' = Ret("CreateElementNode", 0, r.node, NoErr, 0)
    /\ UNCHANGED <<pc, freeCalls>>

XmlDocument_CreateTextNode ==
    /\ Live
    /\ Cardinality(LiveNodes(heap)) < MaxNodes
    /\ \E ok \in BOOLEAN :
         LET r == CreateTextNode(World, 1, ok) IN
         /\ Commit(r.w)
         /\ ret' = Ret("CreateTextNode", 0, r.node, NoErr, 0)
    /\ UNCHANGED <<pc, freeCalls>>

XmlDocument_CreateCDataNode ==
    /\ Live
    /\ Cardinality(LiveNodes(heap)) < MaxNodes
    /\ \E ok \in BOOLEAN :
         LET r == CreateCDataNode(World, 1, ok) IN
         /\ Commit(r.w)
         /\ ret' = Ret("CreateCDataNode", 0, r.node, NoErr, 0)
    /\ UNCHANGED <<pc, freeCalls>>

XmlDocument_Root ==
    /\ Live
    /\ ret' = Ret("Root", 0, Root(World, 1), NoErr, 0)
    /\ UNCHANGED <<pc, heap, docs, frags, freeLog, freeCalls>>

XmlDocument_AddUnlinkedNode ==
    /\ Live
    /\ \E n \in Nodes :
         /\ Alive(heap, n)
         /\ ParentOf(heap, n) = Nil
         /\ Commit(AddUnlinkedNode(World, 1, n))
         /\ ret' = NoRet
    /\ UNCHANGED <<pc, freeCalls>>

\* --------------------------------------------------- the fragment builder
RECURSIVE NewSiblings(_, _, _, _)
\* the parser's children of the synthetic root, one node per item, in order
NewSiblings(h, root, items, i) ==
    IF i > Len(items) THEN h
    ELSE NewSiblings(xmlAddChild(xmlNewNode(h), root, h.allocated + 1),
                     root, items, i + 1)

\* xmlParseFragment (helper.h): no root when the parser rejects the buffer or
\* the buffer is not one <root>...</root> element; else the root element with
\* one child per top-level item.  heap.built keeps what the parser built,
\* heap.roots every root element it has returned.
xmlParseFragment(h, wrapped, accept) ==
    LET wellFormed == /\ Len(wrapped) >= 2
                      /\ <<wrapped[1]>> = fragmentWrapperStart
                      /\ <<wrapped[Len(wrapped)]>> = fragmentWrapperEnd
                      /\ \A i \in 2..(Len(wrapped) - 1) : wrapped[i] \in Items
    IN
    IF ~accept \/ ~wellFormed THEN [heap |-> h, root |-> Nil, calls |-> 1]
    ELSE LET root == h.allocated + 1
             h1 == xmlNewNode(h)
             h2 == NewSiblings(h1, root, SubSeq(wrapped, 2, Len(wrapped) - 1), 1)
         IN [heap |-> [h2 EXCEPT !.built = h2.kids[root], !.roots = @ \cup {root}],
             root |-> root, calls |-> 1]

RECURSIVE WalkChildrenNextAfterUnlink(_, _, _)
\* the loop reading c.next only after c was unlinked
WalkChildrenNextAfterUnlink(h, c, children) ==
    IF c = Nil THEN [heap |-> h, Children |-> children]
    ELSE LET h1 == xmlUnlinkNode(h, c)
             nextSibling == NextSibling(h1, c) IN
         WalkChildrenNextAfterUnlink(h1, nextSibling, Append(children, c))

RECURSIVE WalkChildren(_, _, _)
\* the loop of fragment.go:50-54: nextSibling is read before c is unlinked
WalkChildren(h, c, children) ==
    IF c = Nil THEN [heap |-> h, Children |-> children]
    ELSE LET nextSibling == NextSibling(h, c) IN
         WalkChildren(xmlUnlinkNode(h, c), nextSibling, Append(children, c))

\* ParseFragment without the trivial case of line 24
ParseFragmentNoTrivialCase(w, d, content, accept) ==
    LET wrapped == (fragmentWrapperStart \o content) \o fragmentWrapperEnd
        r == xmlParseFragment(w.heap, wrapped, accept)
    IN
    IF r.root = Nil
    THEN [w |-> [w EXCEPT !.heap = r.heap], fragment |-> Nil,
          err |-> ErrFailParseFragment, parsed |-> r.calls]
    ELSE LET walk == WalkChildren(r.heap, FirstChild(r.heap, r.root), <<>>)
             fragment == [Document |-> d, Children |-> walk.Children]
         IN [w |-> [w EXCEPT !.heap = xmlFreeNode(walk.heap, r.root),
                             !.frags = Append(@, fragment)],
             fragment |-> Len(w.frags) + 1,
             err |-> NoErr, parsed |-> r.calls]

\* ParseFragment handing out a fragment without children, next to the error,
\* when the parser gives no root
ParseFragmentPartialOnFailure(w, d, content, accept) ==
    IF Len(content) = 0 THEN [w |-> w, fragment |-> Nil, err |-> NoErr, parsed |-> 0]
    ELSE LET wrapped == (fragmentWrapperStart \o content) \o fragmentWrapperEnd
             r == xmlParseFragment(w.heap, wrapped, accept)
         IN
         IF r.root = Nil
         THEN [w |-> [w EXCEPT !.heap = r.heap,
                               !.frags = Append(@, [Document |-> d, Children |-> <<>>])],
               fragment |-> Len(w.frags) + 1,
               err |-> ErrFailParseFragment, parsed |-> r.calls]
         ELSE LET walk == WalkChildren(r.heap, FirstChild(r.heap, r.root), <<>>)
                  fragment == [Document |-> d, Children |-> walk.Children]
              IN [w |-> [w EXCEPT !.heap = xmlFreeNode(walk.heap, r.root),
                                  !.frags = Append(@, fragment)],
                  fragment |-> Len(w.frags) + 1,
                  err |-> NoErr, parsed |-> r.calls]

\* ParseFragment without line 56: the root element is not freed
ParseFragmentKeepsRoot(w, d, content, accept) ==
    IF Len(content) = 0 THEN [w |-> w, fragment |-> Nil, err |-> NoErr, parsed |-> 0]
    ELSE LET wrapped == (fragmentWrapperStart \o content) \o fragmentWrapperEnd
             r == xmlParseFragment(w.heap, wrapped, accept)
         IN
         IF r.root = Nil
         THEN [w |-> [w EXCEPT !.heap = r.heap], fragment |-> Nil,
               err |-> ErrFailParseFragment, parsed |-> r.calls]
         ELSE LET walk == WalkChildren(r.heap, FirstChild(r.heap, r.root), <<>>)
                  fragment == [Document |-> d, Children |-> walk.Children]
              IN [w |-> [w EXCEPT !.heap = walk.heap,
                                  !.frags = Append(@, fragment)],
                  fragment |-> Len(w.frags) + 1,
                  err |-> NoErr, parsed |-> r.calls]

\* ParseFragment (fragment.go), called with a document:
\* [w, fragment, err, parsed]
ParseFragment(w, d, content, accept) ==
    IF Len(content) = 0 THEN [w |-> w, fragment |-> Nil, err |-> NoErr, parsed |-> 0]
    ELSE LET wrapped == (fragmentWrapperStart \o content) \o fragmentWrapperEnd
             r == xmlParseFragment(w.heap, wrapped, accept)
         IN
         IF r.root = Nil
         THEN [w |-> [w EXCEPT !.heap = r.heap], fragment |-> Nil,
               err |-> ErrFailParseFragment, parsed |-> r.calls]
         ELSE LET walk == WalkChildren(r.heap, FirstChild(r.heap, r.root), <<>>)
                  fragment == [Document |-> d, Children |-> walk.Children]
              IN [w |-> [w EXCEPT !.heap = xmlFreeNode(walk.heap, r.root),
                                  !.frags = Append(@, fragment)],
                  fragment |-> Len(w.frags) + 1,
                  err |-> NoErr, parsed |-> r.calls]

\* parsefragment: the builder, then the fragment recorded against the document
parsefragment(w, d, node, content, accept) ==
    LET r == ParseFragment(w, d, content, accept) IN
    IF r.fragment = Nil THEN r
    ELSE [r EXCEPT !.w = BookkeepFragment(r.w, d, r.fragment)]

XmlDocument_ParseFragment ==
    /\ Live
    /\ \E content \in Contents, accept \in BOOLEAN :
         /\ Len(content) > 0 =>
              /\ Len(frags) < MaxFragments
              /\ Cardinality(LiveNodes(heap)) + Len(content) <= MaxNodes
         /\ LET root == Root(World, 1)
                r == parsefragment(World, 1, root, content, accept) IN
            /\ Commit(r.w)
            /\ ret' = Ret("ParseFragment", IF Len(content) > 0 THEN 1 ELSE 0,
                        r.fragment, r.err, r.parsed)
    /\ UNCHANGED <<pc, freeCalls>>

\* ------------------------------------------------------------- profiling
\* ProfilingData is a Go map: a function whose domain is the names it holds.
\* now is what time.Now().UnixNano() reads.
CountAndTime(count, time) == [Count |-> count, Time |-> time]

\* m with the key k bound to v, k being in the map already or not
MapPut(m, k, v) == [x \in DOMAIN m \cup {k} |-> IF x = k THEN v ELSE m[x]]

StartProfiling(w, d, fnName, now) ==
    LET data == w.docs[d].ProfilingData
        data1 == IF fnName \notin DOMAIN data
                 THEN MapPut(data, fnName, CountAndTime(0, 0)) ELSE data
        data2 == MapPut(data1, fnName,
                        CountAndTime(data1[fnName].Count + 1, data1[fnName].Time))
    IN [w EXCEPT !.docs[d].NowProfiling = fnName,
                 !.docs[d].ProfilingData = data2,
                 !.docs[d].StartTime = now]

\* StopProfiling: [w, fault]; fault is the nil *CountAndTime the map gives for
\* a name it does not hold
StopProfiling(w, d, stopTime) ==
    LET doc == w.docs[d]
        data == doc.ProfilingData IN
    IF doc.NowProfiling \notin DOMAIN data THEN [w |-> w, fault |-> TRUE]
    ELSE [w |-> [w EXCEPT !.docs[d].ProfilingData =
                     MapPut(data, doc.NowProfiling,
                            CountAndTime(data[doc.NowProfiling].Count,
                                         data[doc.NowProfiling].Time
                                             + (stopTime - doc.StartTime)))],
          fault |-> FALSE]

XmlDocument_StartProfiling ==
    /\ Live
    /\ \E fnName \in Names, now \in 0..MaxTime :
         /\ fnName \in DOMAIN docs[1].ProfilingData =>
                docs[1].ProfilingData[fnName].Count < MaxCalls
         /\ Commit(StartProfiling(World, 1, fnName, now))
         /\ ret' = Ret("StartProfiling", 0, Nil, NoErr, 0)
    /\ UNCHANGED <<pc, freeCalls>>

XmlDocument_StopProfiling ==
    /\ Live
    /\ \E stopTime \in docs[1].StartTime..MaxTime :
         LET r == StopProfiling(World, 1, stopTime)
             name == docs[1].NowProfiling IN
         /\ ~r.fault => r.w.docs[1].ProfilingData[name].Time <= MaxTime
         /\ Commit(r.w)
         /\ ret' = Ret("StopProfiling", 0, Nil, NoErr, 0)
         /\ pc' = IF r.fault THEN "panic" ELSE pc
    /\ UNCHANGED freeCalls

\* ------------------------------------------------- detaching and attaching
\* Node.Unlink: out of the tree, and the document is told
Unlink(w, d, n) ==
    AddUnlinkedNode([w EXCEPT !.heap = xmlUnlinkNode(@, n)], d, n)

\* Node.AddChild: a parentless node becomes the last child of p
AddChild(w, d, p, n) == [w EXCEPT !.heap = xmlAddChild(@, p, n)]

Node_Unlink ==
    /\ Live
    /\ \E n \in Nodes :
         /\ Alive(heap, n)
         /\ ParentOf(heap, n) # Nil
         /\ Commit(Unlink(World, 1, n))
         /\ ret' = NoRet
    /\ UNCHANGED <<pc, freeCalls>>

Node_AddChild ==
    /\ Live
    /\ \E p \in Nodes, n \in Nodes :
         /\ Alive(heap, p) /\ Alive(heap, n)
         /\ p \in Subtree(heap, DocNode)
         /\ ParentOf(heap, n) = Nil
         /\ Commit(AddChild(World, 1, p, n))
         /\ ret' = NoRet
    /\ UNCHANGED <<pc, freeCalls>>

\* ------------------------------------------------- package xpath: engine
\* xmlXPathFreeObject: the object goes, and its node table with it
xmlXPathFreeObject(h, r) ==
    [h EXCEPT !.resFreeCount[r] = @ + 1, !.resNodeTab[r] = <<>>]

xmlXPathFreeContext(h, c) == [h EXCEPT !.ctxFreeCount = @ + 1]

\* xmlXPathCompiledEval: no object for "null"; else a fresh result object,
\* without a node set for "noset", with the children of the context node
\* as its node set for "set"; heap.resNodeTab is the node table of each
\* result object
xmlXPathCompiledEval(h, outcome) ==
    IF outcome = "null" THEN [heap |-> h, ptr |-> Nil, hasSet |-> FALSE, nodeTab |-> <<>>]
    ELSE LET r == h.resAllocated + 1
             nodeTab == IF outcome = "set" /\ h.ctxNode # Nil
                        THEN h.kids[h.ctxNode] ELSE <<>>
         IN [heap |-> [h EXCEPT !.resAllocated = r, !.resNodeTab[r] = nodeTab],
             ptr |-> r,
             hasSet |-> outcome = "set",
             nodeTab |-> nodeTab]

\* Evaluate answering with the node table of the result it held before
XPath_EvaluateStale(w, d, nodePtr, outcome) ==
    LET xpath == w.docs[d].XPathCtx IN
    IF nodePtr = Nil THEN [w |-> w, nodes |-> <<>>, fault |-> FALSE]
    ELSE IF xpath.ContextPtr = Nil THEN [w |-> w, nodes |-> <<>>, fault |-> TRUE]
    ELSE LET h1 == [w.heap EXCEPT !.ctxNode = nodePtr]
             h2 == IF xpath.ResultPtr # Nil
                   THEN xmlXPathFreeObject(h1, xpath.ResultPtr) ELSE h1
             e == xmlXPathCompiledEval(h2, outcome)
             w1 == [w EXCEPT !.heap = e.heap, !.docs[d].XPathCtx.ResultPtr = e.ptr]
         IN IF e.ptr = Nil THEN [w |-> w1, nodes |-> <<>>, fault |-> TRUE]
            ELSE [w |-> w1,
                  nodes |-> IF xpath.ResultPtr # Nil
                            THEN w.heap.resNodeTab[xpath.ResultPtr]
                            ELSE e.nodeTab,
                  fault |-> FALSE]

\* Evaluate setting the context node before it looks at nodePtr
XPath_EvaluateSetsNodeFirst(w, d, nodePtr, outcome) ==
    LET xpath == w.docs[d].XPathCtx IN
    IF xpath.ContextPtr = Nil
    THEN [w |-> w, nodes |-> <<>>, fault |-> nodePtr # Nil]
    ELSE LET h1 == [w.heap EXCEPT !.ctxNode = nodePtr] IN
         IF nodePtr = Nil
         THEN [w |-> [w EXCEPT !.heap = h1], nodes |-> <<>>, fault |-> FALSE]
         ELSE LET h2 == IF xpath.ResultPtr # Nil
                        THEN xmlXPathFreeObject(h1, xpath.ResultPtr) ELSE h1
                  e == xmlXPathCompiledEval(h2, outcome)
                  w1 == [w EXCEPT !.heap = e.heap, !.docs[d].XPathCtx.ResultPtr = e.ptr]
              IN IF e.ptr = Nil THEN [w |-> w1, nodes |-> <<>>, fault |-> TRUE]
                 ELSE [w |-> w1,
                       nodes |-> IF e.hasSet /\ Len(e.nodeTab) > 0 THEN e.nodeTab ELSE <<>>,
                       fault |-> FALSE]

\* Evaluate without lines 55-57: the previous result is not released
XPath_EvaluateKeepsPrevious(w, d, nodePtr, outcome) ==
    LET xpath == w.docs[d].XPathCtx IN
    IF nodePtr = Nil THEN [w |-> w, nodes |-> <<>>, fault |-> FALSE]
    ELSE IF xpath.ContextPtr = Nil THEN [w |-> w, nodes |-> <<>>, fault |-> TRUE]
    ELSE LET h1 == [w.heap EXCEPT !.ctxNode = nodePtr]
             e == xmlXPathCompiledEval(h1, outcome)
             w1 == [w EXCEPT !.heap = e.heap, !.docs[d].XPathCtx.ResultPtr = e.ptr]
         IN IF e.ptr = Nil THEN [w |-> w1, nodes |-> <<>>, fault |-> TRUE]
            ELSE [w |-> w1,
                  nodes |-> IF e.hasSet /\ Len(e.nodeTab) > 0 THEN e.nodeTab ELSE <<>>,
                  fault |-> FALSE]

\* XPath.Evaluate: [w, nodes, fault]; fault is a nil pointer dereference
XPath_Evaluate(w, d, nodePtr, outcome) ==
    LET xpath == w.docs[d].XPathCtx IN
    IF nodePtr = Nil THEN [w |-> w, nodes |-> <<>>, fault |-> FALSE]
    ELSE IF xpath.ContextPtr = Nil THEN [w |-> w, nodes |-> <<>>, fault |-> TRUE]
    ELSE LET h1 == [w.heap EXCEPT !.ctxNode = nodePtr]
             h2 == IF xpath.ResultPtr # Nil
                   THEN xmlXPathFreeObject(h1, xpath.ResultPtr) ELSE h1
             e == xmlXPathCompiledEval(h2, outcome)
             w1 == [w EXCEPT !.heap = e.heap, !.docs[d].XPathCtx.ResultPtr = e.ptr]
         IN IF e.ptr = Nil THEN [w |-> w1, nodes |-> <<>>, fault |-> TRUE]
            ELSE [w |-> w1,
                  nodes |-> IF e.hasSet /\ Len(e.nodeTab) > 0 THEN e.nodeTab ELSE <<>>,
                  fault |-> FALSE]

\* XPath.Free leaving both handles as they were
XPath_FreeKeepsHandles(w, d) ==
    LET xpath == w.docs[d].XPathCtx
        w1 == IF xpath.ContextPtr # Nil
              THEN [w EXCEPT !.heap = xmlXPathFreeContext(@, xpath.ContextPtr),
                             !.log.events = Append(@, "context")]
              ELSE w
    IN IF xpath.ResultPtr # Nil
       THEN [w1 EXCEPT !.heap = xmlXPathFreeObject(@, xpath.ResultPtr),
                       !.log.events = Append(@, "result")]
       ELSE w1

\* XPath.Free
XPath_Free(w, d) ==
    LET xpath == w.docs[d].XPathCtx
        w1 == IF xpath.ContextPtr # Nil
              THEN [w EXCEPT !.heap = xmlXPathFreeContext(@, xpath.ContextPtr),
                             !.docs[d].XPathCtx.ContextPtr = Nil,
                             !.log.events = Append(@, "context")]
              ELSE w
    IN IF xpath.ResultPtr # Nil
       THEN [w1 EXCEPT !.heap = xmlXPathFreeObject(@, xpath.ResultPtr),
                       !.docs[d].XPathCtx.ResultPtr = Nil,
                       !.log.events = Append(@, "result")]
       ELSE w1

\* a call of Evaluate on the document's engine, from a node or with no
\* context node
Evaluate ==
    /\ Live
    /\ \E nodePtr \in {Nil} \cup LiveNodes(heap), outcome \in EvalOutcomes :
         /\ nodePtr # Nil => heap.resAllocated < MaxResults
         /\ LET r == XPath_Evaluate(World, 1, nodePtr, outcome) IN
            /\ Commit(r.w)
            /\ ret' = Ret("Evaluate", IF nodePtr # Nil THEN 1 ELSE 0, r.nodes, NoErr, 0)
            /\ pc' = IF r.fault THEN "panic" ELSE pc
    /\ UNCHANGED freeCalls

\* XPath.Free on the document's engine, called through DocXPathCtx() or by
\* the finalizer NewXPath sets; it is no part of an XmlDocument.Free, whose
\* log it leaves alone
DocXPathCtx_Free ==
    /\ pc \in {"live", "freed"}
    /\ Len(docs) = 1
    /\ Commit([XPath_Free(World, 1) EXCEPT !.log = freeLog])
    /\ ret' = Ret("XPath.Free", 0, Nil, NoErr, 0)
    /\ UNCHANGED <<pc, freeCalls>>

\* ------------------------------------------------------------- teardown
NoLog == [events |-> <<>>, drained |-> {}]

RECURSIVE RemoveChildren(_, _, _, _)
RemoveChildren(w, d, children, i) ==
    IF i > Len(children) THEN w
    ELSE RemoveChildren(Unlink(w, d, children[i]), d, children, i + 1)

\* DocumentFragment.Remove: every child unlinked and handed to the document
Fragment_Remove(w, d, f) ==
    LET w1 == RemoveChildren(w, d, w.frags[f].Children, 1) IN
    [w1 EXCEPT !.log.events = Append(@, "fragment")]

RECURSIVE FreeFragments(_, _, _)
\* Free, lines 275-277
FreeFragments(w, d, i) ==
    IF i > Len(w.docs[d].fragments) THEN w
    ELSE FreeFragments(Fragment_Remove(w, d, w.docs[d].fragments[i]), d, i + 1)

RECURSIVE FreeUnlinkedForget(_, _, _, _)
\* the range dropping every key without freeing its node
FreeUnlinkedForget(w, d, order, i) ==
    IF i > Len(order) THEN w
    ELSE LET p == order[i]
             w1 == IF p \in w.docs[d].UnlinkedNodes
                   THEN [w EXCEPT !.docs[d].UnlinkedNodes = @ \ {p},
                                  !.log.events = Append(@, "node"),
                                  !.log.drained = @ \cup {p}]
                   ELSE w
         IN FreeUnlinkedForget(w1, d, order, i + 1)

RECURSIVE FreeUnlinked(_, _, _, _)
\* Free, lines 278-282: the map is ranged over in the order the runtime picks
FreeUnlinked(w, d, order, i) ==
    IF i > Len(order) THEN w
    ELSE LET p == order[i]
             w1 == IF p \in w.docs[d].UnlinkedNodes
                   THEN [w EXCEPT !.heap = xmlFreeNode(@, p),
                                  !.docs[d].UnlinkedNodes = @ \ {p},
                                  !.log.events = Append(@, "node"),
                                  !.log.drained = @ \cup {p}]
                   ELSE w
         IN FreeUnlinked(w1, d, order, i + 1)

\* Free, line 297
FreeTree(w, d) ==
    [w EXCEPT !.heap = xmlFreeDoc(@), !.log.events = Append(@, "tree")]

\* Free with the tree freed before the nodes and the engine
FreeTreeFirst(w, d, order) ==
    XPath_Free(FreeUnlinked(FreeTree(FreeFragments(w, d, 1), d), d, order, 1), d)

\* XmlDocument.Free, the tracked set ranged over in the given order
Free(w, d, order) ==
    FreeTree(XPath_Free(FreeUnlinked(FreeFragments(w, d, 1), d, order, 1), d), d)

XmlDocument_Free ==
    /\ pc \in {"live", "freed"}
    /\ Len(docs) = 1
    /\ freeCalls < MaxFreeCalls
    /\ LET w0 == [World EXCEPT !.log = NoLog] IN
       \E order \in Orders(FreeFragments(w0, 1, 1).docs[1].UnlinkedNodes) :
           Commit(Free(w0, 1, order))
    /\ freeCalls' = freeCalls + 1
    /\ pc' = "freed"
    /\ ret' = NoRet

\* --------------------------------------------------------- specification
Init ==
    /\ pc = "start"
    /\ heap = EmptyHeap
    /\ docs = <<>>
    /\ frags = <<>>
    /\ freeLog = NoLog
    /\ freeCalls = 0
    /\ ret = NoRet

Next ==
    \/ \E content \in Contents, shape \in TreeShapes : Parse(content, shape)
    \/ XmlDocument_CreateElementNode
    \/ XmlDocument_CreateTextNode
    \/ XmlDocument_CreateCDataNode
    \/ XmlDocument_Root
    \/ XmlDocument_AddUnlinkedNode
    \/ XmlDocument_ParseFragment
    \/ Node_Unlink
    \/ Node_AddChild
    \/ Evaluate
    \/ DocXPathCtx_Free
    \/ XmlDocument_Free

Spec == Init /\ [][Next]_vars

\* The profiling counters of a document: no operation above reads or writes
\* them (Free prints them), and StartProfiling and StopProfiling touch
\* nothing else, so they are taken on their own.
NextProfiling ==
    \/ \E content \in Contents, shape \in TreeShapes : Parse(content, shape)
    \/ XmlDocument_StartProfiling
    \/ XmlDocument_StopProfiling

SpecProfiling == Init /\ [][NextProfiling]_vars

\* ---------------------------------------------------------------- properties
Allocated == 1..heap.allocated

InLiveTree(n) == n \in Subtree(heap, DocNode) \ {DocNode}

FragmentChildren == UNION {Range(frags[f].Children) : f \in DOMAIN frags}

CreateOps == {"CreateElementNode", "CreateTextNode", "CreateCDataNode"}

\* C1: after exactly one Free, the tree, the engine's objects and every node
\* allocated for the document have been freed exactly once
C1_FreeReclaimsExactlyOnce ==
    freeCalls = 1 =>
        /\ \A n \in Allocated : heap.freeCount[n] = 1
        /\ heap.freeCount[DocNode] = 1
        /\ heap.ctxFreeCount = heap.ctxAllocated
        /\ \A r \in 1..heap.resAllocated : heap.resFreeCount[r] = 1

Phase(e) ==
    CASE e = "fragment" -> 1
      [] e = "node" -> 2
      [] e \in {"context", "result"} -> 3
      [] e = "tree" -> 4

Count(events, e) == Cardinality({i \in DOMAIN events : events[i] = e})

\* C2: a Free removes every fragment, then frees every tracked node, then
\* releases the engine's context and result, and frees the tree last
C2_TeardownOrder ==
    freeCalls >= 1 =>
        LET ev == freeLog.events IN
        /\ \A i, j \in DOMAIN ev : i < j => Phase(ev[i]) <= Phase(ev[j])
        /\ Count(ev, "fragment") = Len(docs[1].fragments)
        /\ Count(ev, "node") = Cardinality(freeLog.drained)
        /\ FragmentChildren \subseteq freeLog.drained
        /\ docs[1].UnlinkedNodes = {}
        /\ docs[1].XPathCtx.ContextPtr = Nil /\ docs[1].XPathCtx.ResultPtr = Nil
        /\ Count(ev, "tree") = 1 /\ ev[Len(ev)] = "tree"

C2_Witness ==
    /\ freeCalls = 1
    /\ \A e \in {"fragment", "node", "context", "result", "tree"} :
           Count(freeLog.events, e) >= 1
    /\ Count(freeLog.events, "node") >= 2

\* C3: up to and including the one Free of a document, a tracked node is
\* neither attached in the live tree nor freed, and no node is freed twice or
\* freed while reachable from the live tree
C3_ExactlyOnePlace ==
    (Len(docs) = 1 /\ freeCalls <= 1) =>
        /\ \A n \in docs[1].UnlinkedNodes : ~InLiveTree(n) /\ heap.freeCount[n] = 0
        /\ \A n \in Allocated : heap.freeCount[n] <= 1
        /\ heap.freeCount[DocNode] = 0 =>
               \A n \in Allocated : InLiveTree(n) => heap.freeCount[n] = 0

\* C4: a Free of a document frees exactly once every node that is detached
\* and tracked when Free is called
C4_TrackedDetachedFreedOnce ==
    [][(freeCalls = 0 /\ freeCalls' = 1) =>
          \A n \in docs[1].UnlinkedNodes :
              (Alive(heap, n) /\ ParentOf(heap, n) = Nil) =>
                  /\ heap'.freeCount[n] = 1
                  /\ n \in freeLog'.drained]_vars

C4_Witness ==
    /\ freeCalls = 1
    /\ \E n \in freeLog.drained :
           /\ ParentOf(heap, n) = Nil
           /\ n \notin FragmentChildren
           /\ heap.freeCount[n] = 1

Owned(n) ==
    \/ InLiveTree(n)
    \/ n \in docs[1].UnlinkedNodes
    \/ n \in FragmentChildren

\* C5: a node just created is owned by the document, and after one Free no
\* node allocated for the document is left unfreed
C5_CreateIsOwned ==
    /\ (ret.op \in CreateOps /\ ret.val # Nil) => Owned(ret.val)
    /\ freeCalls = 1 => \A n \in Allocated : heap.freeCount[n] >= 1

C7_ChildrenInOrder ==
    (ret.op = "ParseFragment" /\ ret.val # Nil) =>
        LET children == frags[ret.val].Children IN
        /\ children = heap.built
        /\ Len(children) = Len(heap.built)
        /\ \A i \in DOMAIN children :
               /\ ParentOf(heap, children[i]) = Nil
               /\ NextSibling(heap, children[i]) = Nil

C7_Witness ==
    /\ ret.op = "ParseFragment" /\ ret.val # Nil
    /\ Len(frags[ret.val].Children) = 2
    /\ frags[ret.val].Children = heap.built

\* C8: Parse of empty content returns a document and no error, without a
\* call of the external parser, and the document has no root
C8_EmptyParse ==
    (ret.op = "Parse" /\ ret.in = 0) =>
        /\ ret.val # Nil /\ ret.val \in DOMAIN docs
        /\ ret.err = NoErr
        /\ ret.parsed = 0
        /\ Root(World, ret.val) = Nil

C8_Witness ==
    /\ ret.op = "Parse" /\ ret.in = 0
    /\ pc = "live" /\ ret.val = 1

\* C9: Parse returns a document or an error, never both and never neither;
\* when the parser gives no tree it returns the error and builds nothing
C9_ParseFailure ==
    ret.op = "Parse" =>
        /\ (ret.val = Nil) # (ret.err = NoErr)
        /\ (ret.parsed = 1 /\ ~heap.docAllocated) =>
               /\ ret.err = ERR_FAILED_TO_PARSE_XML
               /\ ret.val = Nil
               /\ docs = <<>>
               /\ heap.ctxAllocated = 0

C9_Witness ==
    /\ ret.op = "Parse" /\ ret.in = 1 /\ ret.parsed = 1
    /\ ret.val = Nil /\ ret.err = ERR_FAILED_TO_PARSE_XML
    /\ pc = "failed"

\* C10: ParseFragment of empty content returns no fragment and no error,
\* makes no call of the external parser and changes nothing
C10_EmptyFragment ==
    [][(ret'.op = "ParseFragment" /\ ret'.in = 0) =>
          /\ ret'.val = Nil
          /\ ret'.err = NoErr
          /\ ret'.parsed = 0
          /\ UNCHANGED <<heap, docs, frags, freeLog, pc>>]_vars

C10_Witness ==
    /\ ret.op = "ParseFragment" /\ ret.in = 0 /\ ret.val = Nil
    /\ Len(docs[1].fragments) >= 1
    /\ docs[1].UnlinkedNodes # {}

\* C11: when the fragment parser gives no root for non-empty content,
\* ParseFragment returns ErrFailParseFragment and no fragment, and the
\* document's fragment list and tracked set, the fragments and the native
\* heap are as they were before the call
C11_FragmentParseFailure ==
    [][(ret'.op = "ParseFragment" /\ ret'.in = 1 /\ heap'.roots = heap.roots) =>
          /\ ret'.parsed = 1
          /\ ret'.err = ErrFailParseFragment
          /\ ret'.val = Nil
          /\ docs'[1].fragments = docs[1].fragments
          /\ docs'[1].UnlinkedNodes = docs[1].UnlinkedNodes
          /\ frags' = frags
          /\ heap' = heap]_vars

C11_Witness ==
    /\ ret.op = "ParseFragment" /\ ret.in = 1 /\ ret.parsed = 1
    /\ ret.err = ErrFailParseFragment /\ ret.val = Nil
    /\ Len(docs[1].fragments) = 1
    /\ docs[1].UnlinkedNodes # {}

RetainedResults == {r \in 1..heap.resAllocated : heap.resFreeCount[r] = 0}

\* C12: an Evaluate that returns with a context node returns the node table
\* of the result object its own evaluation produced, every earlier result
\* object being freed once; and no result object is ever freed twice
C12_FreshResult ==
    /\ \A r \in 1..heap.resAllocated : heap.resFreeCount[r] <= 1
    /\ (ret.op = "Evaluate" /\ ret.in = 1 /\ pc # "panic") =>
           LET r == docs[1].XPathCtx.ResultPtr IN
           /\ r = heap.resAllocated
           /\ heap.resFreeCount[r] = 0
           /\ ret.val = heap.resNodeTab[r]
           /\ \A q \in 1..(r - 1) : heap.resFreeCount[q] = 1

C12_Witness ==
    /\ ret.op = "Evaluate" /\ ret.in = 1 /\ pc = "live"
    /\ heap.resAllocated = 2
    /\ heap.resFreeCount[1] = 1
    /\ ret.val # <<>>

\* C13: Evaluate without a context node returns the empty sequence and
\* leaves the native heap (no evaluator call, the context node as it was),
\* the engine's handles and the run as they were
C13_NilContextNoOp ==
    [][(ret'.op = "Evaluate" /\ ret'.in = 0) =>
          /\ ret'.val = <<>>
          /\ heap' = heap
          /\ docs' = docs
          /\ pc' = pc]_vars

C13_Witness ==
    /\ ret.op = "Evaluate" /\ ret.in = 0
    /\ docs[1].XPathCtx.ResultPtr # Nil
    /\ heap.ctxNode # Nil

\* C14: after a call of XPath.Free both handles are nil, a call that finds
\* both nil changes nothing in the native heap, and whoever calls it and
\* however often, the context and every result object are freed at most once
C14_EngineFreeIdempotent ==
    [][/\ heap'.ctxFreeCount <= 1
       /\ \A r \in 1..heap'.resAllocated : heap'.resFreeCount[r] <= 1
       /\ ret'.op = "XPath.Free" =>
              /\ docs'[1].XPathCtx.ContextPtr = Nil
              /\ docs'[1].XPathCtx.ResultPtr = Nil
              /\ (docs[1].XPathCtx.ContextPtr = Nil /\ docs[1].XPathCtx.ResultPtr = Nil)
                     => heap' = heap]_vars

C14_Witness ==
    /\ ret.op = "XPath.Free" /\ pc = "freed"
    /\ heap.ctxFreeCount = 1
    /\ heap.resAllocated >= 1
    /\ \A r \in 1..heap.resAllocated : heap.resFreeCount[r] = 1

\* C15: Root returns the node that is the child of the xmlDoc in the tree as
\* it is at the call, and nil exactly when the xmlDoc has no child
C15_RootIsCurrent ==
    ret.op = "Root" =>
        IF \E n \in Nodes : Alive(heap, n) /\ ParentOf(heap, n) = DocNode
        THEN Alive(heap, ret.val) /\ ParentOf(heap, ret.val) = DocNode
        ELSE ret.val = Nil

C15_Witness ==
    /\ ret.op = "Root" /\ ret.val = Nil
    /\ 1 \in docs[1].UnlinkedNodes
    /\ heap.kids[1] # <<>>

\* C16: at no time are two result objects of the engine allocated and not
\* freed, and the one that is, is the one the engine holds
C16_OneRetainedResult ==
    /\ Cardinality(RetainedResults) <= 1
    /\ \A r \in RetainedResults : docs[1].XPathCtx.ResultPtr = r

C16_Witness ==
    /\ ret.op = "Evaluate" /\ pc = "live"
    /\ heap.resAllocated = 2
    /\ RetainedResults = {2}

\* C17: every root element the fragment parser returned has been freed
\* exactly once, without children, and is no child of a fragment and not
\* tracked; the children of a fragment just returned are not freed
C17_SyntheticRootTransient ==
    /\ \A r \in heap.roots :
           /\ heap.freeCount[r] = 1
           /\ heap.kids[r] = <<>>
           /\ r \notin FragmentChildren
           /\ r \notin docs[1].UnlinkedNodes
    /\ (ret.op = "ParseFragment" /\ ret.val # Nil) =>
           \A c \in Range(frags[ret.val].Children) :
               heap.freeCount[c] = 0 /\ ParentOf(heap, c) = Nil

C17_Witness ==
    /\ heap.roots # {}
    /\ \E f \in DOMAIN frags : Len(frags[f].Children) = 2
    /\ freeCalls = 1

\* C18: when Free has been called twice, the xmlDoc, every node, the context
\* and every result object have been freed at most once
C18_FreeTwice ==
    freeCalls = 2 =>
        /\ heap.freeCount[DocNode] <= 1
        /\ \A n \in Allocated : heap.freeCount[n] <= 1
        /\ heap.ctxFreeCount <= 1
        /\ \A r \in 1..heap.resAllocated : heap.resFreeCount[r] <= 1

\* C19: no call of Evaluate ends in a nil pointer dereference
C19_EvaluateNeverFaults ==
    ret.op = "Evaluate" => pc # "panic"

\* C20: StopProfiling never faults, adds the elapsed time to the entry of
\* NowProfiling and changes no other entry; StartProfiling(name) adds one to
\* the Count of name, an absent entry counting as zero, and changes no other
\* entry
C20_Profiling ==
    [][/\ ret'.op = "StopProfiling" =>
              LET data == docs[1].ProfilingData
                  name == docs[1].NowProfiling IN
              /\ pc' = pc
              /\ name \in DOMAIN data
              /\ DOMAIN docs'[1].ProfilingData = DOMAIN data
              /\ \A k \in DOMAIN data \ {name} : docs'[1].ProfilingData[k] = data[k]
              /\ docs'[1].ProfilingData[name].Count = data[name].Count
              /\ \E elapsed \in 0..MaxTime :
                     docs'[1].ProfilingData[name].Time = data[name].Time + elapsed
       /\ ret'.op = "StartProfiling" =>
              LET data == docs[1].ProfilingData
                  name == docs'[1].NowProfiling IN
              /\ DOMAIN docs'[1].ProfilingData = DOMAIN data \cup {name}
              /\ \A k \in DOMAIN data \ {name} : docs'[1].ProfilingData[k] = data[k]
              /\ docs'[1].ProfilingData[name].Count =
                     (IF name \in DOMAIN data THEN data[name].Count ELSE 0) + 1]_vars

====
